---------------------------- MODULE Spec2Model ----------------------------
(***************************************************************************)
(* A model of raml-sanitize (src/raml-sanitize.js, lines 1-397): the type  *)
(* coercers, the sanitization compiler toSanitization, the adapter         *)
(* elementToSchema, the field dispatcher and the record sanitizer.         *)
(*                                                                         *)
(* JavaScript values are tagged records.  A coercer either returns a value *)
(* or throws; a throw is the pseudo-value Thrown, which every operator     *)
(* propagates the way an uncaught exception unwinds the JavaScript stack.  *)
(***************************************************************************)
EXTENDS Integers, Sequences, FiniteSets, TLC

(***************************************************************************)
(* Bounds of the model.                                                    *)
(***************************************************************************)
\* longest array among the input values
MaxArrayLen == 2
\* most calls of one compiled function on one input record
MaxCalls == 2
MaxRules == 2
MaxCallers == 2

(***************************************************************************)
(* JavaScript values.                                                      *)
(***************************************************************************)
Undefined == [t |-> "undefined"]
Null == [t |-> "null"]
Thrown == [t |-> "thrown"]
Bool(b) == [t |-> "boolean", b |-> b]
\* the finite number i + h/2 (h is 0 or 1), so that 2.5 is Num(2, 1)
Num(i, h) == [t |-> "number", k |-> "fin", i |-> i, h |-> h]
Infinity == [t |-> "number", k |-> "inf", i |-> 0, h |-> 0]
NaN == [t |-> "number", k |-> "nan", i |-> 0, h |-> 0]
Str(s) == [t |-> "string", s |-> s]
\* a Date object; d is what it was constructed from (a string or a number)
DateV(d) == [t |-> "date", d |-> d]
Arr(a) == [t |-> "array", a |-> a]
\* a plain object: o its own properties, p the properties it inherits
Obj(o, p) == [t |-> "object", o |-> o, p |-> p]
NoProps == [k \in {} |-> Null]
EmptyObj == Obj(NoProps, NoProps)

\* the strings whose JSON text the model knows
JsonFive == "[5]"
JsonStrs == "[\"5\",\"abc\"]"
JsonObj == "{}"
JsonNull == "null"
\* the text Date.prototype.toString gives the one Date of the model
DateText == "Sat May 23 2015"
IsoDate == "2015-05-23"

(***************************************************************************)
(* The platform's conversions, as far as the coercers use them.            *)
(***************************************************************************)
RECURSIVE JoinStrings(_)
\* Array.prototype.join(",") over already converted elements
JoinStrings(ss) ==
  IF Len(ss) = 0 THEN ""
  ELSE IF Len(ss) = 1 THEN ss[1]
  ELSE ss[1] \o "," \o JoinStrings(Tail(ss))

\* Number.prototype.toString on the numbers of the model
NumberToString(n) ==
  CASE n.k = "inf" -> "Infinity"
    [] n.k = "nan" -> "NaN"
    [] n.k = "fin" /\ n.i = 0 /\ n.h = 0 -> "0"
    [] n.k = "fin" /\ n.i = 0 /\ n.h = 1 -> "0.5"
    [] n.k = "fin" /\ n.i = 1 /\ n.h = 0 -> "1"
    [] n.k = "fin" /\ n.i = 2 /\ n.h = 1 -> "2.5"
    [] n.k = "fin" /\ n.i = 5 /\ n.h = 0 -> "5"
    [] n.k = "fin" /\ n.i = 16578 /\ n.h = 0 -> "16578"
    [] OTHER -> "?"

RECURSIVE ToStringJS(_)
\* ToString(value): what String(value), JSON.parse(value) and Date.parse(value)
\* first turn their argument into
ToStringJS(v) ==
  CASE v.t = "undefined" -> "undefined"
    [] v.t = "null" -> "null"
    [] v.t = "boolean" -> (IF v.b THEN "true" ELSE "false")
    [] v.t = "number" -> NumberToString(v)
    [] v.t = "string" -> v.s
    [] v.t = "date" -> DateText
    [] v.t = "array" ->
         JoinStrings([i \in 1..Len(v.a) |->
           IF v.a[i].t \in {"undefined", "null"} THEN "" ELSE ToStringJS(v.a[i])])
    [] v.t = "object" -> "[object Object]"

\* StringToNumber: the numeric value of a string, NaN when it has none
StringToNumber(s) ==
  CASE s = "" -> Num(0, 0)
    [] s = "0" -> Num(0, 0)
    [] s = "1" -> Num(1, 0)
    [] s = "5" -> Num(5, 0)
    [] s = "2.5" -> Num(2, 1)
    [] s = "Infinity" -> Infinity
    [] OTHER -> NaN

\* ToNumber(value): what isFinite(value), Number(value) and value % 1 compute with
ToNumberJS(v) ==
  CASE v.t = "undefined" -> NaN
    [] v.t = "null" -> Num(0, 0)
    [] v.t = "boolean" -> (IF v.b THEN Num(1, 0) ELSE Num(0, 0))
    [] v.t = "number" -> v
    [] v.t = "string" -> StringToNumber(v.s)
    \* Date.prototype.valueOf: the time value (here in days since the epoch)
    [] v.t = "date" -> Num(16578, 0)
    [] v.t = "array" -> StringToNumber(ToStringJS(v))
    [] v.t = "object" -> NaN

\* JSON.parse(text): the parsed value, Thrown on a SyntaxError
JSONParseText(s) ==
  CASE s = JsonFive -> Arr(<<Num(5, 0)>>)
    [] s = JsonStrs -> Arr(<<Str("5"), Str("abc")>>)
    [] s = "[]" -> Arr(<< >>)
    [] s = JsonObj -> EmptyObj
    [] s = JsonNull -> Null
    [] s = "true" -> Bool(TRUE)
    [] s = "false" -> Bool(FALSE)
    [] s = "0" -> Num(0, 0)
    [] s = "1" -> Num(1, 0)
    [] s = "5" -> Num(5, 0)
    [] s = "2.5" -> Num(2, 1)
    [] s = "0.5" -> Num(0, 1)
    [] s = "16578" -> Num(16578, 0)
    [] OTHER -> Thrown

JSONParse(v) == JSONParseText(ToStringJS(v))

\* Array.isArray(value)
IsArray(v) == v.t = "array"

\* value.constructor === {}.constructor
IsPlainObject(v) == v.t = "object"


(***************************************************************************)
(* State.                                                                  *)
(***************************************************************************)
VARIABLES
  \* sanitize.TYPES and sanitize.RULES of the instance
  TYPES, RULES,
  \* whether Date.parse accepts the non-ISO, digit-bearing texts it is free to
  \* accept or reject (its implementation-defined fallback)
  legacyDates,
  \* the caller's position: "start", "compiled", "returned", "applied"
  pc,
  \* the elements given to sanitize(elements), and the function it returned
  elements, sanitizations,
  \* the argument and the result of the last call of that function
  input, output,
  \* toSanitization applied on its own: its configs, the value, the result
  configs, value, result,
  \* the objects in memory, by reference: the caller's input record (and the
  \* record it holds, if any) and the records the calls created; the content
  \* the caller gave its input record; the references the calls returned
  heap, given, outputs,
  \* the registries of a second instance made by the module's function
  other,
  \* the callers inside the compiled function, each with its input, the
  \* param it is at and the result it was returned; the records under
  \* construction
  calls, work

vars == <<TYPES, RULES, legacyDates, pc, elements, sanitizations, input, output,
          configs, value, result, heap, given, outputs, other, calls, work>>

\* the variables that follow objects by reference
refs == <<heap, given, outputs>>

\* the variables of a second instance and of the callers of one function
apart == <<other, calls, work>>

(***************************************************************************)
(* Type coercers.                                                          *)
(***************************************************************************)
\* isEmpty written as !value: 0, "" and false become empty too
isEmptyFalsy(v) ==
  v \in {Null, Undefined, Bool(FALSE), Num(0, 0), Str("")}

isEmpty(v) == v = Null \/ v = Undefined

\* toBoolean comparing with == : whatever converts to 0 is false as well
toBooleanLoose(v) ==
  Bool(~(ToNumberJS(v) = Num(0, 0) \/ v = Str("false")))

toBoolean(v) ==
  Bool(v \notin {Num(0, 0), Bool(FALSE), Str(""), Str("0"), Str("false")})

\* n is Number(value): returned when isFinite(value), else the throw
FiniteOrThrow(n) == IF n.k = "fin" THEN n ELSE Thrown

toNumber(v) == FiniteOrThrow(ToNumberJS(v))

\* n is Number(value): returned when value % 1 === 0, else the throw
IntegerOrThrow(n) == IF n.k = "fin" /\ n.h = 0 THEN n ELSE Thrown

toInteger(v) == IntegerOrThrow(ToNumberJS(v))

RECURSIVE HasDigits(_)
\* texts outside the formats Date.parse must know that start like a date or a
\* number: accepting them is left to the implementation
HasDigits(v) ==
  CASE v.t = "number" -> v.k = "fin"
    [] v.t = "string" -> v.s # "" /\ v.s # IsoDate /\ StringToNumber(v.s).k = "fin"
    [] v.t = "array" -> Len(v.a) > 0 /\ ~isEmpty(v.a[1]) /\ HasDigits(v.a[1])
    [] OTHER -> FALSE

\* !isNaN(Date.parse(value))
DateParses(v) ==
  \/ ToStringJS(v) \in {IsoDate, DateText}
  \/ legacyDates /\ HasDigits(v)

\* new Date(value): a number is a time value, anything else is parsed as text
NewDate(v) ==
  IF v.t = "number" THEN DateV(v) ELSE DateV(Str(ToStringJS(v)))

\* toDate without its test of value.constructor: a Date is parsed again
toDateReparse(v) ==
  IF DateParses(v) THEN NewDate(v) ELSE Thrown

toDate(v) ==
  IF v.t = "date" THEN v
  ELSE IF DateParses(v) THEN NewDate(v)
  ELSE Thrown

\* toArray without its Array.isArray test of the parsed value
ParsedArrayAny(parsed) == parsed

\* the rest of toArray, given what JSON.parse(value) did
ParsedArray(parsed) ==
  IF parsed = Thrown THEN Thrown
  ELSE IF ~IsArray(parsed) THEN Thrown
  ELSE parsed

toArray(v) == IF IsArray(v) THEN v ELSE ParsedArray(JSONParse(v))

\* the rest of toObject, given what JSON.parse(value) did; null.constructor
\* is a TypeError, any other constructor a plain Error
ParsedObject(parsed) ==
  IF parsed = Thrown THEN Thrown
  ELSE IF ~IsPlainObject(parsed) THEN Thrown
  ELSE parsed

toObject(v) == IF IsPlainObject(v) THEN v ELSE ParsedObject(JSONParse(v))

\* String(value)
toStringCoercer(v) == Str(ToStringJS(v))

\* the built-in registry, sanitize.TYPES
BuiltinTypes ==
  [string |-> "String", number |-> "toNumber", integer |-> "toInteger",
   boolean |-> "toBoolean", array |-> "toArray", object |-> "toObject",
   date |-> "toDate", dateTime |-> "toDate", dateTimeOnly |-> "toDate"]

\* sanitize.RULES as the module creates it
BuiltinRules == NoProps

\* a function of the caller, registered as a type or made by a rule factory:
\* function (value) { return typeof value }
typeOf(v) ==
  Str(IF v.t \in {"undefined", "boolean", "number", "string"} THEN v.t ELSE "object")

\* a call fn(value, key, object) of a function held in a chain
ApplyFn(fn, v) ==
  CASE fn.f = "String" -> toStringCoercer(v)
    [] fn.f = "toNumber" -> toNumber(v)
    [] fn.f = "toInteger" -> toInteger(v)
    [] fn.f = "toBoolean" -> toBoolean(v)
    [] fn.f = "toArray" -> toArray(v)
    [] fn.f = "toObject" -> toObject(v)
    [] fn.f = "toDate" -> toDate(v)
    [] fn.f = "typeOf" -> typeOf(v)


(***************************************************************************)
(* Elements and shapes (the webapi-parser model), and elementToSchema.     *)
(* A shape is [kind, dataType, anyOf, items, properties, defaultValueStr]; *)
(* a field it does not have is Undefined (or the empty sequence).          *)
(***************************************************************************)
XSD == "http://www.w3.org/2001/XMLSchema"

ScalarShape(name, default) ==
  [kind |-> "scalar", dataType |-> <<XSD, name>>, anyOf |-> << >>,
   items |-> Undefined, properties |-> << >>, defaultValueStr |-> default]

UnionShape(anyOf, default) ==
  [kind |-> "union", dataType |-> << >>, anyOf |-> anyOf,
   items |-> Undefined, properties |-> << >>, defaultValueStr |-> default]

ArrayShape(items, default) ==
  [kind |-> "array", dataType |-> << >>, anyOf |-> << >>,
   items |-> items, properties |-> << >>, defaultValueStr |-> default]

NodeShape(properties, default) ==
  [kind |-> "node", dataType |-> << >>, anyOf |-> << >>,
   items |-> Undefined, properties |-> properties, defaultValueStr |-> default]

\* a Parameter or PropertyShape: a name, a required flag and its schema
Element(name, required, shape) ==
  [name |-> name, required |-> required, schema |-> shape]

getSchema(element) == element.schema

RECURSIVE getShapeType(_)
getShapeType(shape) ==
  CASE shape.kind = "scalar" ->
         \* shape.dataType.value().split('#').pop()
         Str(shape.dataType[Len(shape.dataType)])
    [] shape.kind = "union" ->
         Arr([i \in 1..Len(shape.anyOf) |-> getShapeType(shape.anyOf[i])])
    [] shape.kind = "array" -> Str("array")
    [] shape.kind = "node" -> Str("object")
    [] OTHER -> Undefined

\* try { extraData.default = JSON.parse(extraData.default) } catch (e) {}
ParsedOr(parsed, option) == IF parsed = Thrown THEN option ELSE parsed

ParsedDefault(option) == ParsedOr(JSONParse(option), option)

RECURSIVE shapeToSchema(_, _, _)
\* elementToSchema on an element with this name, required flag and shape
shapeToSchema(name, required, shape) ==
  LET data == [name |-> name, required |-> Bool(required),
               type |-> getShapeType(shape)]
      default == ParsedDefault(shape.defaultValueStr)
      withDefault ==
        IF default # Null /\ default # Undefined
        THEN data @@ [default |-> default]
        ELSE data
  IN IF data.type = Str("array") /\ shape.items # Undefined
     THEN withDefault @@ [items |-> shapeToSchema(Undefined, FALSE, shape.items)]
     ELSE withDefault

elementToSchema(element) ==
  shapeToSchema(Str(element.name), element.required, getSchema(element))

\* Object.keys(config), in the order elementToSchema sets the keys
KeyOrder == <<"name", "required", "type", "default", "items">>

ConfigKeys(config) == SelectSeq(KeyOrder, LAMBDA k : k \in DOMAIN config)

(***************************************************************************)
(* toSanitization.                                                         *)
(***************************************************************************)
\* the functions a caller may register as rules: the factory's name is the
\* behaviour of the function it returns
ApplyRule(fn, v) ==
  CASE fn.f = "reject" -> Thrown
    [] fn.f = "keep" -> v
    [] fn.f = "replace" -> Str("ruled")
    [] fn.f = "typeOf" -> typeOf(v)

ApplyChainFn(fn, v) ==
  IF fn.kind = "type" THEN ApplyFn(fn, v) ELSE ApplyRule(fn, v)

\* the type lookup reading the built-in table, whatever the registry holds
TypeFnsBuiltin(config, types) ==
  LET typesNames == IF IsArray(config.type) THEN config.type.a ELSE <<config.type>>
      known == SelectSeq(typesNames, LAMBDA n : ToStringJS(n) \in DOMAIN BuiltinTypes)
  IN [i \in 1..Len(known) |->
        [kind |-> "type", f |-> BuiltinTypes[ToStringJS(known[i])]]]

\* the type functions pushed first (lines 122-129)
TypeFns(config, types) ==
  LET typesNames == IF IsArray(config.type) THEN config.type.a ELSE <<config.type>>
      \* typeof types[name] === 'function': the name is used as a property key
      known == SelectSeq(typesNames, LAMBDA n : ToStringJS(n) \in DOMAIN types)
  IN [i \in 1..Len(known) |-> [kind |-> "type", f |-> types[ToStringJS(known[i])]]]

\* the rule lookup without its filter: every key of the config is looked up
RuleFnsUnfiltered(config, rules) ==
  LET keys == SelectSeq(ConfigKeys(config), LAMBDA rule : rule \in DOMAIN rules)
  IN [i \in 1..Len(keys) |->
        [kind |-> "rule", f |-> rules[keys[i]], rule |-> keys[i],
         arg |-> config[keys[i]]]]

\* the rule functions pushed after them (lines 131-139): rules[rule] called
\* with (config[rule], rule, config)
RuleFns(config, rules) ==
  LET keys == SelectSeq(ConfigKeys(config),
                LAMBDA rule : rule # "type" /\ rule # "default" /\ rule \in DOMAIN rules)
  IN [i \in 1..Len(keys) |->
        [kind |-> "rule", f |-> rules[keys[i]], rule |-> keys[i],
         arg |-> config[keys[i]]]]

\* one compiled chain: the config, its functions, whether it is a union
Chain(config, rules, types) ==
  [config |-> config,
   isUnion |-> IsArray(config.type),
   fns |-> TypeFns(config, types) \o RuleFns(config, rules)]

\* fnsRunner keeping a sentinel instead of the value it was given
RanSentinel(r, v) ==
  IF r = Thrown
  THEN [value |-> NaN, returned |-> FALSE]
  ELSE [value |-> r, returned |-> TRUE]

\* fnsRunner without its try/catch: the throw leaves the chain
RanRethrow(r, v) ==
  IF r = Thrown
  THEN [value |-> Thrown, returned |-> FALSE]
  ELSE [value |-> r, returned |-> TRUE]

\* what fnsRunner leaves, given what fn(value, key, object) did
Ran(r, v) ==
  IF r = Thrown
  THEN [value |-> v, returned |-> FALSE]
  ELSE [value |-> r, returned |-> TRUE]

\* fnsRunner: the value after fn, and whether fn returned (true) or threw
fnsRunner(fn, v) == Ran(ApplyChainFn(fn, v), v)

RECURSIVE RunEveryAll(_, _)
\* fns.forEach(fnsRunner): a function that threw does not stop the chain
RunEveryAll(fns, ran) ==
  IF Len(fns) = 0 THEN ran.value
  ELSE RunEveryAll(Tail(fns), fnsRunner(Head(fns), ran.value))

RECURSIVE RunEvery(_, _)
\* fns.every(fnsRunner) from the state ran of the previous call: stops after
\* the first function that threw
RunEvery(fns, ran) ==
  IF Len(fns) = 0 \/ ~ran.returned THEN ran.value
  ELSE RunEvery(Tail(fns), fnsRunner(Head(fns), ran.value))

RECURSIVE RunSomeAll(_, _)
\* fns.some whose callback never reports success: every function runs
RunSomeAll(fns, ran) ==
  IF Len(fns) = 0 THEN ran.value
  ELSE RunSomeAll(Tail(fns), fnsRunner(Head(fns), ran.value))

RECURSIVE RunSome(_, _)
\* fns.some(fnsRunner) from the state ran of the previous call: stops after
\* the first function that returned
RunSome(fns, ran) ==
  IF Len(fns) = 0 \/ ran.returned THEN ran.value
  ELSE RunSome(Tail(fns), fnsRunner(Head(fns), ran.value))

\* sanitize(value, key, object) of one chain (lines 150-162)
sanitizeChain(chain, v) ==
  IF chain.isUnion
  THEN RunSome(chain.fns, [value |-> v, returned |-> FALSE])
  ELSE RunEvery(chain.fns, [value |-> v, returned |-> TRUE])

\* configs = Array.isArray(configs) ? configs : [configs], then one chain each;
\* a list of configs is a sequence, a single config a sequence of one
toSanitization(cfgs, rules, types) ==
  [i \in 1..Len(cfgs) |-> Chain(cfgs[i], rules, types)]

RECURSIVE sanitization(_, _, _, _)
RECURSIVE Resolve(_, _, _, _)

\* value = [value] without the Array.isArray test
WrapAlways(v) == Arr(<<v>>)

\* if (!Array.isArray(value)) value = [value]
Wrap(v) == IF IsArray(v) THEN v ELSE Arr(<<v>>)

\* value.some(isEmpty) ? null : value, unless a call of sanitizeItem threw
Refuse(mapped) ==
  IF \E i \in 1..Len(mapped) : mapped[i] = Thrown THEN Thrown
  ELSE IF \E i \in 1..Len(mapped) : isEmpty(mapped[i]) THEN Null
  ELSE Arr(mapped)

\* value.map that sanitizes the first element only
MapItemsFirstOnly(items, rules, types, arr) ==
  Refuse([i \in 1..Len(arr) |->
            IF i = 1
            THEN Resolve(toSanitization(<<items>>, rules, types), rules, types, arr[i])
            ELSE arr[i]])

\* sanitizeItem = toSanitization(config.items, rules, types), mapped over value
MapItems(items, rules, types, arr) ==
  Refuse([i \in 1..Len(arr) |->
            Resolve(toSanitization(<<items>>, rules, types), rules, types, arr[i])])

\* lines 184-199 wrapping only when the items are to be sanitized
AfterChainNoWrap(chain, rules, types, sanitized) ==
  IF chain.config.type = Str("array") /\ "items" \in DOMAIN chain.config
  THEN MapItems(chain.config.items, rules, types, Wrap(sanitized).a)
  ELSE sanitized

\* lines 184-199, given the value sanitize(value, key, object) returned
AfterChain(chain, rules, types, sanitized) ==
  IF chain.config.type = Str("array")
  THEN IF "items" \in DOMAIN chain.config
       THEN MapItems(chain.config.items, rules, types, Wrap(sanitized).a)
       ELSE Wrap(sanitized)
  ELSE sanitized

\* sanitization returning the default as declared, without sanitizing it
sanitizationRawDefault(chain, rules, types, v) ==
  IF isEmpty(v) /\ "default" \notin DOMAIN chain.config THEN v
  ELSE IF isEmpty(v) THEN chain.config.default
  ELSE AfterChain(chain, rules, types, sanitizeChain(chain, v))

\* sanitization(value, key, object) of one chain (lines 172-200): an empty
\* value is returned, or replaced by the default and sanitized in its place; a
\* default that is itself empty makes the call recurse until the stack overflows
sanitization(chain, rules, types, v) ==
  IF isEmpty(v) /\ "default" \notin DOMAIN chain.config THEN v
  ELSE IF isEmpty(v) /\ isEmpty(chain.config.default) THEN Thrown
  ELSE AfterChain(chain, rules, types,
         sanitizeChain(chain, IF isEmpty(v) THEN chain.config.default ELSE v))

RECURSIVE ResolveFrom(_, _, _, _, _)
\* sanitizations.some(...) of lines 215-217: the callback returns nothing, so
\* every chain runs, each on the value passed in, and the last result stays
ResolveFrom(chains, rules, types, v, res) ==
  IF Len(chains) = 0 \/ res = Thrown THEN res
  ELSE ResolveFrom(Tail(chains), rules, types, v,
                   sanitization(Head(chains), rules, types, v))

\* the function toSanitization returns (lines 211-220)
Resolve(chains, rules, types, v) == ResolveFrom(chains, rules, types, v, v)

(***************************************************************************)
(* sanitize(elements) and the function it returns.                         *)
(***************************************************************************)
\* the index of the last element of els named n: a later assignment to
\* sanitizations[name] replaces an earlier one
LastNamed(els, n) ==
  CHOOSE i \in 1..Len(els) :
    /\ els[i].name = n
    /\ \A j \in (i + 1)..Len(els) : els[j].name # n

\* sanitize(elements) compiling every field with sanitize.rule, nested or not
sanitizeFlat(els, rules, types) ==
  IF Len(els) < 1
  THEN [kind |-> "empty"]
  ELSE [kind |-> "record",
        fns |-> [n \in {els[i].name : i \in 1..Len(els)} |->
                  [kind |-> "rule",
                   chains |-> toSanitization(
                                <<elementToSchema(els[LastNamed(els, n)])>>,
                                rules, types)]]]

RECURSIVE sanitize(_, _, _)
\* sanitize(elements) (lines 236-253): the compiled record function
sanitize(els, rules, types) ==
  IF Len(els) < 1
  THEN [kind |-> "empty"]
  ELSE [kind |-> "record",
        fns |-> [n \in {els[i].name : i \in 1..Len(els)} |->
                  LET el == els[LastNamed(els, n)]
                      hasProperties == Len(getSchema(el).properties) > 0
                  IN IF hasProperties
                     THEN sanitize(getSchema(el).properties, rules, types)
                     \* sanitize.rule(el)
                     ELSE [kind |-> "rule",
                           chains |-> toSanitization(<<elementToSchema(el)>>,
                                                     rules, types)]]]

\* !input: the values input || {} replaces by {}
Falsy(v) ==
  \/ isEmpty(v)
  \/ v \in {Bool(FALSE), Num(0, 0), NaN, Str("")}

\* param in input: inherited properties count as fields
hasOwnOrInherited(obj, param) ==
  obj.t = "object" /\ (param \in DOMAIN obj.o \/ param \in DOMAIN obj.p)

\* Object.prototype.hasOwnProperty.call(input, param), for a param that names
\* neither an index nor a length
hasOwnProperty(obj, param) ==
  obj.t = "object" /\ param \in DOMAIN obj.o

\* input = input || {}
InputOr(inp) == IF Falsy(inp) THEN EmptyObj ELSE inp

\* input[param]: an own property, else an inherited one, else undefined
Get(obj, param) ==
  IF obj.t # "object" THEN Undefined
  ELSE IF param \in DOMAIN obj.o THEN obj.o[param]
  ELSE IF param \in DOMAIN obj.p THEN obj.p[param]
  ELSE Undefined

\* hasField ? input[param] : null
FieldValue(obj, param) ==
  IF hasOwnProperty(obj, param) THEN Get(obj, param) ELSE Null

\* the loop starting from a copy of the input instead of from {}
SanitizedOverInput(obj, sanValues) ==
  IF \E param \in DOMAIN sanValues : sanValues[param] = Thrown
  THEN Thrown
  ELSE Obj([param \in DOMAIN obj.o \cup DOMAIN sanValues |->
              IF param \in DOMAIN sanValues THEN sanValues[param]
              ELSE obj.o[param]],
           NoProps)

\* the record the loop of lines 268-275 builds from each param's sanValue
Sanitized(obj, sanValues) ==
  IF \E param \in DOMAIN sanValues : sanValues[param] = Thrown
  THEN Thrown
  ELSE Obj([param \in {q \in DOMAIN sanValues :
                         hasOwnProperty(obj, q) \/ sanValues[q] # Null} |->
              sanValues[param]],
           NoProps)

\* a function handing its input back where no field was compiled
emptySanitizerEcho(inp) == IF inp.t = "object" THEN inp ELSE EmptyObj

\* function () { return {} }: what sanitize returns for no elements
emptySanitizer(inp) == EmptyObj

RECURSIVE recordFn(_, _, _, _)
\* the function sanitize(elements) returns, applied to input (lines 261-278);
\* sanitizations[param] is a chain resolver or a nested record function
recordFn(compiled, inp, rules, types) ==
  IF compiled.kind = "empty" THEN emptySanitizer(inp)
  ELSE Sanitized(InputOr(inp),
         [param \in DOMAIN compiled.fns |->
            IF compiled.fns[param].kind = "rule"
            THEN Resolve(compiled.fns[param].chains, rules, types,
                         FieldValue(InputOr(inp), param))
            ELSE recordFn(compiled.fns[param],
                          FieldValue(InputOr(inp), param), rules, types)])

(***************************************************************************)
(* The values, shapes and inputs the model draws from.                     *)
(***************************************************************************)
SeqsUpTo(S, n) == UNION {[1..k -> S] : k \in 0..n}

Scalars ==
  {Undefined, Null, Bool(TRUE), Bool(FALSE),
   Num(0, 0), Num(5, 0), Num(2, 1), Infinity,
   Str(""), Str("0"), Str("5"), Str("2.5"), Str("abc"), Str("false"),
   Str(IsoDate), Str(JsonFive), Str(JsonStrs), Str(JsonObj)}

\* the elements of the arrays: a numeric text, another text, and null
ArrayItems == {Str("5"), Str("abc"), Null}

Arrays == {Arr(a) : a \in SeqsUpTo(ArrayItems, MaxArrayLen)}

\* records: empty, with a field a, with an extra field x, with a record in a
Objects ==
  {EmptyObj, Obj([a |-> Str("5"), x |-> Str("abc")], NoProps)}
    \cup {Obj([a |-> v], NoProps) :
            v \in {Str("5"), Str("abc"), Obj([a |-> Str("5")], NoProps)}}

\* the values a field of the input may hold
Values == Scalars \cup {DateV(Str(IsoDate))} \cup Arrays \cup Objects

\* what defaultValueStr.option may be
Defaults == {Undefined, Str("5"), Str("abc")}

ScalarTypes == {"string", "number", "integer", "boolean", "date", "file"}

\* the last one declares the default null, as the text "null"
ScalarShapes ==
  {ScalarShape(t, d) : t \in ScalarTypes, d \in Defaults}
    \cup {ScalarShape("string", Str(JsonNull))}

ItemShapes ==
  {Undefined, ScalarShape("integer", Undefined), ScalarShape("boolean", Undefined)}

ArrayShapes ==
  {ArrayShape(i, d) : i \in ItemShapes, d \in {Undefined, Str(JsonStrs)}}

UnionMembers ==
  {ScalarShape(t, Undefined) : t \in {"integer", "string", "boolean", "date"}}
    \cup {ArrayShape(Undefined, Undefined)}

UnionShapes ==
  {UnionShape(<<m, n>>, Undefined) : m \in UnionMembers, n \in UnionMembers}

\* the shapes of the fields of a nested record
CoreShapes == {ScalarShape("integer", Undefined), ScalarShape("string", Str("abc"))}

PropertyLists ==
  {<< >>}
    \cup {<<Element("a", TRUE, c)>> : c \in CoreShapes}
    \cup {<<Element("a", TRUE,
              NodeShape(<<Element("a", TRUE, c)>>, Undefined))>> : c \in CoreShapes}

NodeShapes == {NodeShape(ps, Undefined) : ps \in PropertyLists}

Shapes == ScalarShapes \cup ArrayShapes \cup UnionShapes \cup NodeShapes

\* what sanitize(elements) is given: no element, one element of any shape, or
\* two elements of the core shapes
ElementLists ==
  {<< >>}
    \cup {<<Element("a", TRUE, sh)>> : sh \in Shapes}
    \cup {<<Element("a", TRUE, c), Element("b", TRUE, d)>> :
            c \in CoreShapes, d \in CoreShapes}

\* the own properties of an input record: a declared field a of any value, a
\* second field b, and a field x no schema of the model declares
OwnProps ==
  {[k \in ks |-> CASE k = "a" -> va [] k = "b" -> vb [] k = "x" -> Str("abc")] :
     ks \in SUBSET {"a", "b", "x"}, va \in Values, vb \in {Null, Str("5")}}

InheritedProps == {NoProps, [a |-> Str("5")]}

Inputs ==
  {Null, Undefined} \cup {Obj(o, p) : o \in OwnProps, p \in InheritedProps}

\* the lists of configs toSanitization is applied to on its own
ScalarConfigs ==
  {elementToSchema(Element("a", TRUE, ScalarShape(t, Undefined))) :
     t \in ScalarTypes \ {"file"}}

\* a schema handed to toSanitization with the default null
NullDefaultConfigs == {c @@ [default |-> Null] : c \in ScalarConfigs}

ConfigLists ==
  {<<c>> : c \in ScalarConfigs \cup NullDefaultConfigs}
    \cup {<<c, d>> : c \in ScalarConfigs, d \in ScalarConfigs}

(***************************************************************************)
(* Actions.                                                                *)
(***************************************************************************)
\* a new instance, nothing compiled yet
InitInstance ==
  /\ TYPES = BuiltinTypes
  /\ RULES = BuiltinRules
  /\ legacyDates \in BOOLEAN
  /\ pc = "start"
  /\ elements = << >>
  /\ sanitizations = [kind |-> "none"]
  /\ input = Undefined
  /\ output = Undefined
  /\ configs = << >>
  /\ value = Undefined
  /\ result = Undefined

\* no second instance yet, and no caller inside the compiled function
InitApart ==
  /\ other = [kind |-> "none"]
  /\ calls = [c \in 1..MaxCallers |-> [pc |-> "idle"]]
  /\ work = [c \in 1..MaxCallers |-> Undefined]

Init ==
  /\ InitInstance
  /\ heap = << >>
  /\ given = Undefined
  /\ outputs = << >>
  /\ InitApart

\* const f = sanitize(els)
Compile(els) ==
  /\ pc = "start"
  /\ elements' = els
  /\ sanitizations' = sanitize(els, RULES, TYPES)
  /\ pc' = "compiled"
  /\ UNCHANGED <<TYPES, RULES, legacyDates, input, output, configs, value, result>>
  /\ UNCHANGED refs
  /\ UNCHANGED apart

\* f(inp), for the function compiled before
Invoke(inp) ==
  /\ pc = "compiled"
  /\ input' = inp
  /\ output' = recordFn(sanitizations, inp, RULES, TYPES)
  /\ pc' = "returned"
  /\ UNCHANGED <<TYPES, RULES, legacyDates, elements, sanitizations,
                 configs, value, result>>
  /\ UNCHANGED refs
  /\ UNCHANGED apart

\* the caller drops the result; the compiled function stays in use
Return ==
  /\ pc = "returned"
  /\ input' = Undefined
  /\ output' = Undefined
  /\ pc' = "compiled"
  /\ UNCHANGED <<TYPES, RULES, legacyDates, elements, sanitizations,
                 configs, value, result>>
  /\ UNCHANGED refs
  /\ UNCHANGED apart

\* toSanitization(cfgs, RULES, TYPES)(v, key, object)
Apply(cfgs, v) ==
  /\ pc = "start"
  /\ configs' = cfgs
  /\ value' = v
  /\ result' = Resolve(toSanitization(cfgs, RULES, TYPES), RULES, TYPES, v)
  /\ pc' = "applied"
  /\ UNCHANGED <<TYPES, RULES, legacyDates, elements, sanitizations,
                 input, output>>
  /\ UNCHANGED refs
  /\ UNCHANGED apart

\* sanitize.RULES[name] = factory, before anything is compiled
Register(name, factory) ==
  /\ pc = "start"
  /\ Cardinality(DOMAIN RULES) < MaxRules
  /\ name \notin DOMAIN RULES
  /\ RULES' = [k \in DOMAIN RULES \cup {name} |->
                IF k = name THEN factory ELSE RULES[k]]
  /\ UNCHANGED <<TYPES, legacyDates, pc, elements, sanitizations, input, output,
                 configs, value, result>>
  /\ UNCHANGED refs
  /\ UNCHANGED apart

Next ==
  \/ \E els \in ElementLists : Compile(els)
  \/ \E inp \in Inputs : Invoke(inp)
  \/ Return
  \/ \E cfgs \in ConfigLists, v \in Values : Apply(cfgs, v)

Spec == Init /\ [][Next]_vars

(***************************************************************************)
(* The same instance with rules registered by its user.                   *)
(***************************************************************************)
\* the keys of a config a rule may be registered under
RuleNames == {"type", "default", "items", "required", "name"}

\* the factories: of a rule that throws, of a rule that returns "ruled", of a
\* rule that returns the typeof of what it is given
RuleFactories == {"reject", "replace", "typeOf"}

RuleShapes ==
  {ScalarShape(t, d) : t \in {"integer", "string"}, d \in {Undefined, Str("5")}}
    \cup {ArrayShape(i, Undefined) :
            i \in {Undefined, ScalarShape("integer", Undefined)}}
    \cup {UnionShape(<<ScalarShape("integer", Undefined),
                       ScalarShape(t, Undefined)>>, Undefined) :
            t \in {"string", "date"}}

RuleElementLists == {<<Element("a", TRUE, sh)>> : sh \in RuleShapes}

RuleInputs ==
  {Null} \cup {Obj([a |-> v], NoProps) :
                 v \in {Null, Num(5, 0), Str("5"), Str("abc"), Str(JsonFive),
                        Arr(<<Str("5")>>)}}

NextRules ==
  \/ \E name \in RuleNames, factory \in RuleFactories : Register(name, factory)
  \/ \E els \in RuleElementLists : Compile(els)
  \/ \E inp \in RuleInputs : Invoke(inp)
  \/ Return

SpecRules == Init /\ [][NextRules]_vars

(***************************************************************************)
(* The instance with its type registry changed by the caller, before or    *)
(* after compiling: a coercer is added under a new name, an entry is       *)
(* replaced, an entry is removed.                                          *)
(***************************************************************************)
\* sanitize.TYPES[name] = fn
RegisterType(name, fn) ==
  /\ pc \in {"start", "compiled"}
  /\ TYPES = BuiltinTypes
  /\ TYPES' = [k \in DOMAIN TYPES \cup {name} |-> IF k = name THEN fn ELSE TYPES[k]]
  /\ UNCHANGED <<RULES, legacyDates, pc, elements, sanitizations, input, output,
                 configs, value, result>>
  /\ UNCHANGED refs
  /\ UNCHANGED apart

\* delete sanitize.TYPES[name]
RemoveType(name) ==
  /\ pc \in {"start", "compiled"}
  /\ TYPES = BuiltinTypes
  /\ TYPES' = [k \in DOMAIN TYPES \ {name} |-> TYPES[k]]
  /\ UNCHANGED <<RULES, legacyDates, pc, elements, sanitizations, input, output,
                 configs, value, result>>
  /\ UNCHANGED refs
  /\ UNCHANGED apart

\* the names registered, one new and one built in, and the functions
TypeNames == {"file", "integer"}

TypeFunctions == {"typeOf", "toBoolean"}

\* one field a: of a type, of a list of types, an array of a type, a record
TypeShapes ==
  {ScalarShape(t, Undefined) : t \in {"file", "integer", "string"}}
    \cup {ArrayShape(ScalarShape(t, Undefined), Undefined) : t \in {"file", "integer"}}
    \cup {UnionShape(<<ScalarShape("file", Undefined),
                       ScalarShape("integer", Undefined)>>, Undefined),
          NodeShape(<<Element("a", TRUE, ScalarShape("integer", Undefined))>>,
                    Undefined)}

TypeElementLists == {<<Element("a", TRUE, sh)>> : sh \in TypeShapes}

TypeInputs ==
  {Obj(o, NoProps) :
     o \in {NoProps, [a |-> Str("5")], [a |-> Str("abc")], [a |-> Arr(<<Str("5")>>)],
            [a |-> Obj([a |-> Str("5")], NoProps)]}}

NextTypes ==
  \/ \E name \in TypeNames, fn \in TypeFunctions : RegisterType(name, fn)
  \/ \E name \in TypeNames : RemoveType(name)
  \/ \E els \in TypeElementLists : Compile(els)
  \/ \E inp \in TypeInputs : Invoke(inp)
  \/ Return

SpecTypes == Init /\ [][NextTypes]_vars

(***************************************************************************)
(* Two instances: the caller registers rules and types on the first, and   *)
(* compiles and calls a record function of the second.                     *)
(***************************************************************************)
\* sanitize.TYPES and sanitize.RULES kept by the module, one pair for every
\* instance
ModuleRegistries(own, first) == first

\* sanitize.TYPES = {...} and sanitize.RULES = {} are assigned inside the
\* exported function: every instance reads its own pair
InstanceRegistries(own, first) == own

\* the registries of the first instance
First == [kind |-> "instance", TYPES |-> TYPES, RULES |-> RULES]

\* const other = require('raml-sanitize')()
NewInstance ==
  /\ pc = "start"
  /\ other.kind = "none"
  /\ other' = [kind |-> "instance", TYPES |-> BuiltinTypes, RULES |-> BuiltinRules]
  /\ UNCHANGED <<TYPES, RULES, legacyDates, pc, elements, sanitizations, input,
                 output, configs, value, result, calls, work>>
  /\ UNCHANGED refs

\* const f = other(els)
CompileOther(els) ==
  /\ pc = "start"
  /\ other.kind = "instance"
  /\ elements' = els
  /\ LET registries == InstanceRegistries(other, First)
     IN sanitizations' = sanitize(els, registries.RULES, registries.TYPES)
  /\ pc' = "compiled"
  /\ UNCHANGED <<TYPES, RULES, legacyDates, input, output, configs, value, result>>
  /\ UNCHANGED refs
  /\ UNCHANGED apart

\* f(inp), for the function the second instance compiled
InvokeOther(inp) ==
  /\ pc = "compiled"
  /\ other.kind = "instance"
  /\ input' = inp
  /\ LET registries == InstanceRegistries(other, First)
     IN output' = recordFn(sanitizations, inp, registries.RULES, registries.TYPES)
  /\ pc' = "returned"
  /\ UNCHANGED <<TYPES, RULES, legacyDates, elements, sanitizations,
                 configs, value, result>>
  /\ UNCHANGED refs
  /\ UNCHANGED apart

NextInstances ==
  \/ \E name \in {"required", "name"} : Register(name, "replace")
  \/ \E name \in TypeNames, fn \in TypeFunctions : RegisterType(name, fn)
  \/ NewInstance
  \/ \E els \in TypeElementLists : CompileOther(els)
  \/ \E inp \in TypeInputs : InvokeOther(inp)
  \/ Return

SpecInstances == Init /\ [][NextInstances]_vars

(***************************************************************************)
(* Several callers inside one compiled record function at once: each has   *)
(* entered with its input, takes the params one at a time and leaves with  *)
(* the record it built, and the steps of the callers interleave.           *)
(***************************************************************************)
\* a record sanitized kept in the closure, the same for every call
SharedState(c) == 1

\* const sanitized = {} inside the function: a new record for every call
FreshState(c) == c

\* Object.keys(sanitizations): the names in the order they were first set
Keys(els) ==
  LET first == SelectSeq([i \in 1..Len(els) |-> i],
                 LAMBDA i : \A j \in 1..(i - 1) : els[j].name # els[i].name)
  IN [k \in 1..Len(first) |-> els[first[k]].name]

\* if (hasField || sanValue != null) sanitized[param] = sanValue
Assign(sanitized, obj, param, sanValue) ==
  IF hasOwnProperty(obj, param) \/ ~isEmpty(sanValue)
  THEN Obj([q \in DOMAIN sanitized.o \cup {param} |->
              IF q = param THEN sanValue ELSE sanitized.o[q]],
           NoProps)
  ELSE sanitized

\* caller c calls f(inp): input = input || {} and sanitized = {}
Enter(c, inp) ==
  /\ pc = "compiled"
  /\ calls[c].pc = "idle"
  /\ calls' = [calls EXCEPT ![c] =
                 [pc |-> "running", input |-> inp, at |-> 1,
                  among |-> {d \in DOMAIN calls : calls[d].pc = "running"}]]
  /\ work' = [work EXCEPT ![FreshState(c)] = EmptyObj]
  /\ UNCHANGED <<TYPES, RULES, legacyDates, pc, elements, sanitizations, input,
                 output, configs, value, result, other>>
  /\ UNCHANGED refs

\* one turn of the loop of lines 268-275 for caller c
Step(c) ==
  /\ calls[c].pc = "running"
  /\ calls[c].at <= Len(Keys(elements))
  /\ LET param == Keys(elements)[calls[c].at]
         obj == InputOr(calls[c].input)
         fn == sanitizations.fns[param]
         sanValue == IF fn.kind = "rule"
                     THEN Resolve(fn.chains, RULES, TYPES, FieldValue(obj, param))
                     ELSE recordFn(fn, FieldValue(obj, param), RULES, TYPES)
     IN IF sanValue = Thrown
        THEN /\ calls' = [calls EXCEPT ![c] =
                            [pc |-> "done", input |-> calls[c].input,
                             among |-> calls[c].among, out |-> Thrown]]
             /\ UNCHANGED work
        ELSE /\ calls' = [calls EXCEPT ![c].at = @ + 1]
             /\ work' = [work EXCEPT ![FreshState(c)] =
                           Assign(@, obj, param, sanValue)]
  /\ UNCHANGED <<TYPES, RULES, legacyDates, pc, elements, sanitizations, input,
                 output, configs, value, result, other>>
  /\ UNCHANGED refs

\* return sanitized
Leave(c) ==
  /\ calls[c].pc = "running"
  /\ calls[c].at > Len(Keys(elements))
  /\ calls' = [calls EXCEPT ![c] =
                 [pc |-> "done", input |-> calls[c].input,
                  among |-> calls[c].among, out |-> work[FreshState(c)]]]
  /\ UNCHANGED <<TYPES, RULES, legacyDates, pc, elements, sanitizations, input,
                 output, configs, value, result, other, work>>
  /\ UNCHANGED refs

\* the fields the callers' function is compiled from, and their inputs
CallElementLists ==
  {<< >>,
   <<Element("a", TRUE, ScalarShape("integer", Undefined))>>,
   <<Element("a", TRUE, ScalarShape("integer", Undefined)),
     Element("x", TRUE, ScalarShape("string", Str("abc")))>>,
   <<Element("a", TRUE,
       NodeShape(<<Element("a", TRUE, ScalarShape("integer", Undefined))>>,
                 Undefined)),
     Element("x", TRUE, ScalarShape("boolean", Undefined))>>}

CallInputs ==
  {Null} \cup {Obj(o, NoProps) :
                 o \in {[a |-> Str("5")], [a |-> Str("abc"), x |-> Str("0")],
                        [a |-> Obj([a |-> Str("5")], NoProps), x |-> Str("5")]}}

NextCalls ==
  \/ \E els \in CallElementLists : Compile(els)
  \/ \E c \in 1..MaxCallers, inp \in CallInputs : Enter(c, inp)
  \/ \E c \in 1..MaxCallers : Step(c)
  \/ \E c \in 1..MaxCallers : Leave(c)

SpecCalls == Init /\ [][NextCalls]_vars

(***************************************************************************)
(* The same instance with its records followed by reference: the caller    *)
(* keeps one input record and calls the compiled function on it again and  *)
(* again.  heap[r] is the object of reference r; a field that holds a      *)
(* record holds its reference.                                             *)
(***************************************************************************)
Ref(r) == [t |-> "ref", r |-> r]

RECURSIVE Deref(_, _)
\* the value v stands for: a reference is followed, down to plain values
Deref(h, v) ==
  IF v.t = "ref"
  THEN Obj([k \in DOMAIN h[v.r].o |-> Deref(h, h[v.r].o[k])], h[v.r].p)
  ELSE v

\* const sanitized = input: the record function filling the record it is given
SameObject(inRef, fresh) == IF inRef = 0 THEN fresh ELSE inRef

\* const sanitized = {}: the record function fills a new object, whatever the
\* reference inRef of its input (0 when the input is not an object in memory)
NewObject(inRef, fresh) == fresh

\* sanitized[param] = sanValue for every param: the object at r holds obj
Put(h, r, obj) ==
  IF r \in 1..Len(h) THEN [h EXCEPT ![r] = obj] ELSE Append(h, obj)

\* the reference held by field a of the input record, 0 if it holds none
NestedInput(h) ==
  IF "a" \in DOMAIN h[1].o /\ h[1].o["a"].t = "ref" THEN h[1].o["a"].r ELSE 0

\* f(input) on the caller's input record: the nested record function of the
\* field a, if a was compiled as one, creates its record first, then the
\* top-level record is created and returned
Call ==
  /\ pc = "compiled"
  /\ Len(outputs) < MaxCalls
  /\ LET inp == Deref(heap, Ref(1))
         out == recordFn(sanitizations, inp, RULES, TYPES)
         nested == /\ sanitizations.kind = "record"
                   /\ "a" \in DOMAIN sanitizations.fns
                   /\ sanitizations.fns["a"].kind = "record"
         nestedAt == NewObject(NestedInput(heap), Len(heap) + 1)
         h1 == IF nested THEN Put(heap, nestedAt, out.o["a"]) ELSE heap
         topAt == IF sanitizations.kind = "empty"
                  THEN Len(h1) + 1
                  ELSE NewObject(1, Len(h1) + 1)
         topObj == IF nested
                   THEN Obj([k \in DOMAIN out.o |->
                               IF k = "a" THEN Ref(nestedAt) ELSE out.o[k]],
                            NoProps)
                   ELSE out
     IN /\ input' = inp
        /\ output' = out
        /\ heap' = Put(h1, topAt, topObj)
        /\ outputs' = Append(outputs, topAt)
  /\ pc' = "returned"
  /\ UNCHANGED <<TYPES, RULES, legacyDates, elements, sanitizations,
                 configs, value, result, given>>
  /\ UNCHANGED apart

\* the input record of the caller, alone or with the record its field a holds
HeapInputs ==
  {<<Obj(o, NoProps)>> :
     o \in {NoProps, [a |-> Str("abc")], [a |-> Str("5"), x |-> Str("abc")],
            [a |-> Arr(<<Str("5")>>)]}}
    \cup {<<Obj(o, NoProps), Obj(n, NoProps)>> :
            o \in {[a |-> Ref(2)], [a |-> Ref(2), b |-> Null]},
            n \in {[a |-> Str("5")], [a |-> Str("abc"), x |-> Str("abc")]}}

\* the fields compiled: none, one field a, nested or not, or a and b
HeapElementLists ==
  {<< >>}
    \cup {<<Element("a", TRUE, sh)>> :
            sh \in {ScalarShape("integer", Undefined),
                    ArrayShape(ScalarShape("integer", Undefined), Undefined),
                    NodeShape(<<Element("a", TRUE,
                                  ScalarShape("integer", Undefined))>>, Undefined)}}
    \cup {<<Element("a", TRUE, ScalarShape("integer", Undefined)),
             Element("b", TRUE, ScalarShape("string", Str("abc")))>>}

InitHeap ==
  /\ InitInstance
  /\ heap \in HeapInputs
  /\ given = [value |-> Deref(heap, Ref(1)), objects |-> Len(heap)]
  /\ outputs = << >>
  /\ InitApart

NextHeap ==
  \/ \E els \in HeapElementLists : Compile(els)
  \/ Call
  \/ Return

SpecHeap == InitHeap /\ [][NextHeap]_vars

(***************************************************************************)
(* Vocabulary of the properties.                                           *)
(***************************************************************************)
\* the record function has returned to its caller
Returned == pc = "returned"

\* the positions of the fields the compiled elements declare
Fields == 1..Len(elements)

\* the input record has an own property named n
Own(n) == input.t = "object" /\ n \in DOMAIN input.o

\* the field is compiled by sanitize.rule, not as a nested record
IsRuleField(el) == Len(el.schema.properties) = 0

\* no registered rule is named by a key of the field's schema
NoRules(el) == RuleFns(elementToSchema(el), RULES) = << >>

\* the field's schema declares one type, whose name is among names
SingleTypeIn(el, names) ==
  /\ IsRuleField(el)
  /\ elementToSchema(el).type.t = "string"
  /\ elementToSchema(el).type.s \in names

\* what the coercer registered under the type name t does to v
Coerce(t, v) ==
  IF t \in DOMAIN TYPES THEN ApplyFn([kind |-> "type", f |-> TYPES[t]], v) ELSE v

RECURSIVE OnlyDeclared(_, _)
\* out is a record whose keys are names of els, and so are the nested records
OnlyDeclared(out, els) ==
  /\ out.t = "object"
  /\ DOMAIN out.o \subseteq {els[i].name : i \in 1..Len(els)}
  /\ \A i \in 1..Len(els) :
       (Len(els[i].schema.properties) > 0 /\ els[i].name \in DOMAIN out.o)
         => OnlyDeclared(out.o[els[i].name], els[i].schema.properties)

(***************************************************************************)
(* C1: the key set of the record a compiled record sanitizer returns is a  *)
(* subset of the field names it was compiled from, at every level of       *)
(* nesting; a field of the input that the schema does not declare never    *)
(* reaches the output.                                                     *)
(***************************************************************************)
C1_UnknownFieldExclusion ==
  Returned => OnlyDeclared(output, elements)

\* an input with the undeclared field x and the declared field a was sanitized
C1_Witness ==
  /\ Returned
  /\ Own("x") /\ Own("a")
  /\ output.t = "object"
  /\ "a" \in DOMAIN output.o
  /\ "x" \notin DOMAIN output.o

SanitizedAlone(n, v) ==
  recordFn(sanitizations, Obj([k \in {n} |-> v], NoProps), RULES, TYPES).o[n]

(***************************************************************************)
(* C4: a field whose schema declares the default d, and which the input    *)
(* holds as null or undefined, or lacks, or whose whole input record is    *)
(* null or missing, holds in the output exactly what the same chain makes  *)
(* of d.                                                                   *)
(***************************************************************************)
C4_DefaultSubstitution ==
  Returned =>
    \A i \in Fields :
      LET el == elements[i] IN
        ( /\ IsRuleField(el)
          /\ "default" \in DOMAIN elementToSchema(el)
          /\ (~Own(el.name) \/ isEmpty(input.o[el.name])) )
        => /\ output.t = "object"
           /\ el.name \in DOMAIN output.o
           /\ output.o[el.name] = SanitizedAlone(el.name, elementToSchema(el).default)

\* a null input record, a string field a of default 5: the output holds "5"
C4_Witness ==
  /\ Returned
  /\ input = Null
  /\ elements = <<Element("a", TRUE, ScalarShape("string", Str("5")))>>
  /\ elementToSchema(elements[1]).default = Num(5, 0)
  /\ output.t = "object"
  /\ output.o = [a |-> Str("5")]

RECURSIVE DeclaresNoDefault(_)
\* neither the field's schema nor a field nested in it declares a default
DeclaresNoDefault(el) ==
  /\ "default" \notin DOMAIN elementToSchema(el)
  /\ \A j \in 1..Len(el.schema.properties) :
       DeclaresNoDefault(el.schema.properties[j])

(***************************************************************************)
(* C5: a field the input lacks is in the output only with a value that is  *)
(* not empty, and a field that declares no default (scalar, array or       *)
(* nested record with properties) is never added to the output.            *)
(***************************************************************************)
C5_NoInventedFields ==
  Returned =>
    /\ output.t = "object"
    /\ \A i \in Fields :
         LET el == elements[i] IN
           ~Own(el.name) =>
             /\ el.name \in DOMAIN output.o => ~isEmpty(output.o[el.name])
             /\ DeclaresNoDefault(el) => el.name \notin DOMAIN output.o

(***************************************************************************)
(* C6: a declared field that is an own property of the input is always in  *)
(* the output, even with an empty sanitized value, and a property the      *)
(* input only inherits changes nothing: the output is the one of the same  *)
(* input without its inherited properties.                                 *)
(***************************************************************************)
C6_Presence ==
  (Returned /\ input.t = "object") =>
    /\ output.t = "object"
    /\ \A i \in Fields : Own(elements[i].name) => elements[i].name \in DOMAIN output.o
    /\ output = recordFn(sanitizations, Obj(input.o, NoProps), RULES, TYPES)

\* b is an own property holding null, a is only inherited: b alone comes back
C6_Witness ==
  /\ Returned
  /\ Len(elements) = 2
  /\ \A i \in Fields : "default" \notin DOMAIN elementToSchema(elements[i])
  /\ Own("b") /\ input.o["b"] = Null
  /\ ~Own("a") /\ "a" \in DOMAIN input.p
  /\ output.t = "object"
  /\ output.o = [b |-> Null]

(***************************************************************************)
(* C7: a field whose schema declares no default and which the input holds  *)
(* as null or undefined holds that same value in the output.               *)
(***************************************************************************)
C7_EmptyPassThrough ==
  Returned =>
    \A i \in Fields :
      LET el == elements[i] IN
        ( /\ "default" \notin DOMAIN elementToSchema(el)
          /\ Own(el.name)
          /\ isEmpty(input.o[el.name]) )
        => /\ output.t = "object"
           /\ el.name \in DOMAIN output.o
           /\ output.o[el.name] = input.o[el.name]

\* the field el with its declared default taken away
WithoutDefault(el) ==
  Element(el.name, el.required, [el.schema EXCEPT !.defaultValueStr = Undefined])

\* what the field el, compiled on its own, makes of the value v
CompiledAlone(el, v) ==
  recordFn(sanitize(<<el>>, RULES, TYPES),
           Obj([k \in {el.name} |-> v], NoProps), RULES, TYPES).o[el.name]

(***************************************************************************)
(* C8: 0, "" and false are not empty: a field the sanitization compiler    *)
(* handles and that holds one of them gets what the coercion chain makes   *)
(* of that value (for a single type other than array: the coerced value,   *)
(* or the value itself when the coercer fails), which is also what the     *)
(* same field without its default gets; the default is not substituted.    *)
(***************************************************************************)
C8_OnlyNullAndUndefinedAreEmpty ==
  Returned =>
    \A i \in Fields :
      LET el == elements[i] IN
        ( /\ IsRuleField(el)
          /\ Own(el.name)
          /\ input.o[el.name] \in {Num(0, 0), Str(""), Bool(FALSE)} )
        => LET v == input.o[el.name]
               t == elementToSchema(el).type
           IN /\ output.t = "object"
              /\ el.name \in DOMAIN output.o
              /\ output.o[el.name] = CompiledAlone(WithoutDefault(el), v)
              /\ (t.t = "string" /\ t.s # "array" /\ NoRules(el)) =>
                   output.o[el.name] =
                     IF Coerce(t.s, v) = Thrown THEN v ELSE Coerce(t.s, v)

\* "" in an integer field of default 5: the output holds 0, not 5
C8_Witness ==
  /\ Returned
  /\ elements = <<Element("a", TRUE, ScalarShape("integer", Str("5")))>>
  /\ Own("a")
  /\ input.o["a"] = Str("")
  /\ output.t = "object"
  /\ output.o = [a |-> Num(0, 0)]

RECURSIVE FirstSuccess(_, _)
\* the value of the first type of names whose coercer succeeds on v, else v
FirstSuccess(names, v) ==
  IF Len(names) = 0 THEN v
  ELSE IF ToStringJS(Head(names)) \notin DOMAIN TYPES
       THEN FirstSuccess(Tail(names), v)
       ELSE IF Coerce(ToStringJS(Head(names)), v) # Thrown
            THEN Coerce(ToStringJS(Head(names)), v)
            ELSE FirstSuccess(Tail(names), v)

IsArrayField(el) == IsRuleField(el) /\ elementToSchema(el).type = Str("array")

HasItems(el) == "items" \in DOMAIN elementToSchema(el)

\* the sequence an array field makes of v before its items are looked at: v
\* itself, the sequence its JSON text encodes, or v alone
Normalised(v) ==
  IF IsArray(v) THEN v.a
  ELSE IF Coerce("array", v) # Thrown THEN Coerce("array", v).a
  ELSE <<v>>

\* what a schema of items of one type and no default makes of the element x
ItemSanitized(items, x) ==
  IF isEmpty(x) THEN x
  ELSE IF Coerce(items.type.s, x) = Thrown THEN x
  ELSE Coerce(items.type.s, x)

\* the element x of an array cannot be sanitized by the schema of items
ItemFails(items, x) == isEmpty(x) \/ Coerce(items.type.s, x) = Thrown

C12_ArrayAllOrNothing ==
  Returned =>
    \A i \in Fields :
      LET el == elements[i] IN
        ( /\ IsArrayField(el) /\ HasItems(el)
          /\ NoRules(el)
          /\ Own(el.name)
          /\ ~isEmpty(input.o[el.name])
          /\ \E k \in 1..Len(Normalised(input.o[el.name])) :
               ItemFails(elementToSchema(el).items,
                         Normalised(input.o[el.name])[k]) )
        => /\ output.t = "object"
           /\ el.name \in DOMAIN output.o
           /\ output.o[el.name] = input.o[el.name]

\* an array field without items is given a value that is no sequence and no
\* JSON text of one
ArrayMismatch(el) ==
  /\ IsArrayField(el) /\ ~HasItems(el)
  /\ NoRules(el)
  /\ Own(el.name)
  /\ ~isEmpty(input.o[el.name])
  /\ Coerce("array", input.o[el.name]) = Thrown

NestedFieldSanitized(m, v) ==
  LET x == v.o[m.name]
      t == elementToSchema(m).type.s
  IN IF isEmpty(x) \/ Coerce(t, x) = Thrown THEN x ELSE Coerce(t, x)

(***************************************************************************)
(* C15: a field that declares properties, given a record, holds the record *)
(* the sanitizer compiled from those properties makes of it, to any depth: *)
(* its keys are declared nested names, and a nested field of one type      *)
(* holds the value coerced by the nested field's own type.                 *)
(***************************************************************************)
C15_NestedRecordRecursion ==
  Returned =>
    \A i \in Fields :
      LET el == elements[i] IN
        ( /\ ~IsRuleField(el)
          /\ Own(el.name)
          /\ input.o[el.name].t = "object" )
        => /\ output.t = "object"
           /\ el.name \in DOMAIN output.o
           /\ output.o[el.name] =
                recordFn(sanitize(el.schema.properties, RULES, TYPES),
                         input.o[el.name], RULES, TYPES)
           /\ OnlyDeclared(output.o[el.name], el.schema.properties)
           /\ \A j \in 1..Len(el.schema.properties) :
                LET m == el.schema.properties[j] IN
                  ( /\ IsRuleField(m)
                    /\ NoRules(m)
                    /\ "default" \notin DOMAIN elementToSchema(m)
                    /\ m.name \in DOMAIN input.o[el.name].o )
                  => /\ m.name \in DOMAIN output.o[el.name].o
                     /\ output.o[el.name].o[m.name] =
                          NestedFieldSanitized(m, input.o[el.name])

\* {a: {a: "5", x: "abc"}} with a nested integer a: {a: {a: 5}} comes back
C15_Witness ==
  /\ Returned
  /\ elements = <<Element("a", TRUE,
                    NodeShape(<<Element("a", TRUE,
                                  ScalarShape("integer", Undefined))>>,
                              Undefined))>>
  /\ Own("a")
  /\ input.o["a"] = Obj([a |-> Str("5"), x |-> Str("abc")], NoProps)
  /\ output.t = "object"
  /\ output.o = [a |-> Obj([a |-> Num(5, 0)], NoProps)]

\* the same two levels down: {a: {a: {a: "5"}}} gives {a: {a: {a: 5}}}
C15_WitnessDeep ==
  /\ Returned
  /\ Len(elements) = 1
  /\ Own("a")
  /\ input.o["a"] = Obj([a |-> Obj([a |-> Str("5")], NoProps)], NoProps)
  /\ output.t = "object"
  /\ output.o = [a |-> Obj([a |-> Obj([a |-> Num(5, 0)], NoProps)], NoProps)]

\* the five values the boolean coercer turns into false
FalseValues == {Num(0, 0), Bool(FALSE), Str(""), Str("0"), Str("false")}

OfType(t, v) ==
  CASE t = "string" -> v.t = "string"
    [] t = "number" -> v.t = "number"
    [] t = "integer" -> v.t = "number" /\ v.k = "fin" /\ v.h = 0
    [] t = "boolean" -> v.t = "boolean"
    [] t = "date" -> v.t = "date"
    [] t = "array" -> v.t = "array"
    [] t = "object" -> v.t = "object"
    [] OTHER -> FALSE

\* v is already of the target type of the field: of its one type (for an
\* array with items, a sequence of values of the type of the items), or of
\* one of the types its union lists
OfTargetType(el, v) ==
  LET cfg == elementToSchema(el) IN
    IF IsArray(cfg.type)
    THEN \E k \in 1..Len(cfg.type.a) : OfType(cfg.type.a[k].s, v)
    ELSE /\ OfType(cfg.type.s, v)
         /\ "items" \in DOMAIN cfg =>
              \A k \in 1..Len(v.a) : OfType(cfg.items.type.s, v.a[k])

\* the field el holds in the output the very value the input gave it
KeepsValue(el) ==
  /\ output.t = "object"
  /\ el.name \in DOMAIN output.o
  /\ output.o[el.name] = input.o[el.name]

RulesOf(el) == RuleFns(elementToSchema(el), RULES)

(***************************************************************************)
(* C18: a field of one type with a registered rule, given a value the type *)
(* coercer accepts and whose coerced value the rule then rejects, holds    *)
(* the original input value, not the coerced one.                          *)
(***************************************************************************)
C18_RuleFailureRecovery ==
  Returned =>
    \A i \in Fields :
      LET el == elements[i] IN
        ( /\ IsRuleField(el)
          /\ elementToSchema(el).type.t = "string"
          /\ elementToSchema(el).type.s \in DOMAIN TYPES
          /\ Len(RulesOf(el)) > 0
          /\ Own(el.name)
          /\ ~isEmpty(input.o[el.name])
          /\ Coerce(elementToSchema(el).type.s, input.o[el.name]) # Thrown
          /\ ApplyRule(RulesOf(el)[1],
                       Coerce(elementToSchema(el).type.s, input.o[el.name])) = Thrown )
        => KeepsValue(el)

\* a function is compiled and held by the caller
Compiled == pc \in {"compiled", "returned"}

\* no chain of the compiled fields holds a step made by a rule factory that
\* was looked up under one of the names
NoStepOf(names) ==
  sanitizations.kind = "record" =>
    \A n \in DOMAIN sanitizations.fns :
      sanitizations.fns[n].kind = "rule" =>
        \A c \in 1..Len(sanitizations.fns[n].chains) :
          \A k \in 1..Len(sanitizations.fns[n].chains[c].fns) :
            LET fn == sanitizations.fns[n].chains[c].fns[k] IN
              fn.kind = "rule" => fn.rule \notin names

\* the registered rules are all under the names, and the output is the one
\* the same elements give with no rule registered
SameAsUnruled(names) ==
  (Returned /\ DOMAIN RULES \subseteq names) =>
    output = recordFn(sanitize(elements, BuiltinRules, TYPES), input,
                      BuiltinRules, TYPES)

(***************************************************************************)
(* C20 as stated: the keys type, default, items and properties are never   *)
(* looked up in the rule registry: a factory registered under one of them  *)
(* makes no step of any chain and changes no output.                       *)
(***************************************************************************)
C20_ReservedKeys ==
  /\ Compiled => NoStepOf({"type", "default", "items", "properties"})
  /\ SameAsUnruled({"type", "default", "items", "properties"})

(***************************************************************************)
(* C20 amended: the keys type and default are never looked up in the rule  *)
(* registry: a factory registered under one of them makes no step of any   *)
(* chain and changes no output.                                            *)
(***************************************************************************)
C20_TypeAndDefaultReserved ==
  /\ Compiled => NoStepOf({"type", "default"})
  /\ SameAsUnruled({"type", "default"})

\* a rule replacing every value is registered as default; a field of default
\* 5 given no input still holds 5
C20_Witness ==
  /\ Returned
  /\ RULES = [default |-> "replace"]
  /\ elements = <<Element("a", TRUE, ScalarShape("integer", Str("5")))>>
  /\ "default" \in DOMAIN elementToSchema(elements[1])
  /\ input = Null
  /\ output.t = "object"
  /\ output.o = [a |-> Num(5, 0)]

\* the references of the objects the caller made: its input record and the
\* record that one holds
InputRefs == 1..given.objects

(***************************************************************************)
(* C19: after any number of calls on the same input record, that record    *)
(* and the record it holds are as the caller made them, and every call     *)
(* returned a record of its own: not the input record, not a record an     *)
(* earlier call returned, and holding no record of the input where the     *)
(* field was compiled as a nested record.                                  *)
(***************************************************************************)
C19_NoMutationOfInput ==
  Len(heap) > 0 =>
    /\ Deref(heap, Ref(1)) = given.value
    /\ \A i \in 1..Len(outputs) :
         /\ outputs[i] \notin InputRefs
         /\ \A j \in 1..Len(outputs) : i # j => outputs[i] # outputs[j]
         /\ \A k \in DOMAIN heap[outputs[i]].o :
              heap[outputs[i]].o[k].t = "ref" =>
                heap[outputs[i]].o[k].r \notin InputRefs
    /\ (pc = "returned" /\ Len(outputs) > 0) =>
         Deref(heap, Ref(outputs[Len(outputs)])) = output

\* two calls on a record holding a record with an undeclared field: both
\* outputs are sanitized, and the input still holds the undeclared field
C19_Witness ==
  /\ pc = "returned"
  /\ Len(outputs) = 2
  /\ Len(heap) > 1
  /\ NestedInput(heap) = 2
  /\ "x" \in DOMAIN heap[2].o
  /\ output.t = "object"
  /\ output.o = [a |-> Obj([a |-> Str("abc")], NoProps)]

(***************************************************************************)
(* C24: a sanitizer compiled from no field at all returns the empty record *)
(* for every input, whatever fields the input holds.                       *)
(***************************************************************************)
C24_ZeroFields ==
  (Returned /\ Len(elements) = 0) => output = EmptyObj

\* compiled from no field and given a record with the fields a and x
C24_Witness ==
  /\ Returned
  /\ Len(elements) = 0
  /\ Own("a") /\ Own("x")
  /\ output = EmptyObj

(***************************************************************************)
(* C28: a field that declares properties, given a string or a number       *)
(* instead of a record, holds that value unchanged in the output, not an   *)
(* empty or rebuilt record.                                                *)
(***************************************************************************)
C28_NestedRecordFallback ==
  Returned =>
    \A i \in Fields :
      LET el == elements[i] IN
        ( /\ ~IsRuleField(el)
          /\ Own(el.name)
          /\ input.o[el.name].t \in {"string", "number"} )
        => /\ output.t = "object"
           /\ el.name \in DOMAIN output.o
           /\ output.o[el.name] = input.o[el.name]

\* the compiled record function applied to the record it has just returned
Again == recordFn(sanitizations, output, RULES, TYPES)

RECURSIVE Leaves(_)
\* the fields of els compiled by sanitize.rule, at every level of nesting
Leaves(els) ==
  UNION {IF IsRuleField(els[i])
         THEN {els[i]}
         ELSE Leaves(els[i].schema.properties) : i \in 1..Len(els)}

\* the field declares one type, and no default if it is an array with items
StableField(el) ==
  /\ ~IsArray(elementToSchema(el).type)
  /\ \/ "items" \notin DOMAIN elementToSchema(el)
     \/ "default" \notin DOMAIN elementToSchema(el)

TypeSteps(chain) ==
  LET steps == SelectSeq(chain.fns, LAMBDA fn : fn.kind = "type")
  IN [i \in 1..Len(steps) |-> steps[i].f]

\* the entries a registry holds for the names of a type or of a type list,
\* in the order of the list; a name without entry gives none
RegistryEntries(type, types) ==
  LET names == IF IsArray(type) THEN type.a ELSE <<type>>
      known == SelectSeq(names, LAMBDA n : n.s \in DOMAIN types)
  IN [i \in 1..Len(known) |-> types[known[i].s]]

RECURSIVE StepsFromRegistry(_, _, _)
\* every chain of the compiled record function, nested ones too, holds as
\* coercion steps the entries types has for the type names of its field
StepsFromRegistry(compiled, els, types) ==
  compiled.kind = "record" =>
    \A n \in DOMAIN compiled.fns :
      LET el == els[LastNamed(els, n)] IN
        IF IsRuleField(el)
        THEN TypeSteps(compiled.fns[n].chains[1])
               = RegistryEntries(elementToSchema(el).type, types)
        ELSE StepsFromRegistry(compiled.fns[n], el.schema.properties, types)

\* a compilation: its chains hold the entries of the registry as it is then
C21_CompileStep ==
  (pc = "start" /\ pc' = "compiled")
    => StepsFromRegistry(sanitizations', elements', TYPES)

\* a field of one type other than array, without rules, given a value that
\* is not empty, holds what the one coercion step of its chain makes of the
\* value (the value itself where the step fails), and the value itself
\* where the chain has no coercion step
C21_Returned ==
  Returned =>
    \A i \in Fields :
      LET el == elements[i] IN
        ( /\ IsRuleField(el)
          /\ elementToSchema(el).type.t = "string"
          /\ elementToSchema(el).type # Str("array")
          /\ NoRules(el)
          /\ Own(el.name)
          /\ ~isEmpty(input.o[el.name]) )
        => LET steps == TypeSteps(sanitizations.fns[el.name].chains[1])
               v == input.o[el.name]
               coerced == IF steps = << >> THEN v
                          ELSE ApplyFn([kind |-> "type", f |-> steps[1]], v)
           IN /\ output.t = "object"
              /\ el.name \in DOMAIN output.o
              /\ output.o[el.name] = IF coerced = Thrown THEN v ELSE coerced

(***************************************************************************)
(* C21: the coercion steps of a compiled chain are exactly the entries the *)
(* type registry holds, at the time of compiling, for the type names of    *)
(* the schema: a coercer registered under a new name before compiling is   *)
(* the step of every chain compiled afterwards for that name, a name       *)
(* without entry gives no step, and the field then holds its value         *)
(* uncoerced.                                                              *)
(***************************************************************************)
C21_TypeExtensionPoint ==
  /\ []C21_Returned
  /\ [][C21_CompileStep]_vars

\* typeOf was registered as file before compiling a field of type file: the
\* chain holds it and "5" came back as "string"
C21_Witness ==
  /\ Returned
  /\ "file" \in DOMAIN TYPES
  /\ TYPES["file"] = "typeOf"
  /\ elements = <<Element("a", TRUE, ScalarShape("file", Undefined))>>
  /\ TypeSteps(sanitizations.fns["a"].chains[1]) = <<"typeOf">>
  /\ Own("a")
  /\ input.o["a"] = Str("5")
  /\ output = Obj([a |-> Str("string")], NoProps)

\* no entry for file: the chain has no coercion step and "5" came back
C21_WitnessUnknown ==
  /\ Returned
  /\ "file" \notin DOMAIN TYPES
  /\ elements = <<Element("a", TRUE, ScalarShape("file", Undefined))>>
  /\ TypeSteps(sanitizations.fns["a"].chains[1]) = << >>
  /\ Own("a")
  /\ input.o["a"] = Str("5")
  /\ output = Obj([a |-> Str("5")], NoProps)

\* the caller changes the type registry while holding a compiled function
C22_LateRegistration ==
  pc = "compiled" /\ pc' = "compiled" /\ TYPES' # TYPES

(***************************************************************************)
(* C22: every chain, the chain of the items of an array too, is built when *)
(* the field map is compiled and none during a call, so that a type added, *)
(* replaced or removed in the registry after compiling changes the result  *)
(* of the compiled function for no input.                                  *)
(***************************************************************************)
C22_CompiledOnce ==
  [][C22_LateRegistration =>
       \A inp \in TypeInputs :
         recordFn(sanitizations', inp, RULES', TYPES')
           = recordFn(sanitizations, inp, RULES, TYPES)]_vars

\* one rule function for every key of the field's schema, in the order of
\* the keys, that has a rule registered and is neither type nor default
RuleStepsInOrder(el) ==
  LET schema == elementToSchema(el)
      keys == SelectSeq(KeyOrder,
                LAMBDA k : /\ k \in DOMAIN schema
                           /\ k \in DOMAIN RULES
                           /\ k \notin {"type", "default"})
  IN [i \in 1..Len(keys) |-> [kind |-> "rule", f |-> RULES[keys[i]]]]

\* the steps a field of one type is to run: the coercer of its type, then
\* its rule functions
StepsInOrder(el) ==
  LET type == elementToSchema(el).type
  IN (IF type.s \in DOMAIN TYPES
      THEN <<[kind |-> "type", f |-> TYPES[type.s]]>>
      ELSE << >>) \o RuleStepsInOrder(el)

RECURSIVE InOrder(_, _)
\* steps run one after the other from v, each on the value of the one
\* before, up to the first that fails: the value reached, and whether every
\* step succeeded
InOrder(steps, v) ==
  IF Len(steps) = 0 THEN [value |-> v, failed |-> FALSE]
  ELSE LET r == ApplyChainFn(Head(steps), v)
       IN IF r = Thrown THEN [value |-> v, failed |-> TRUE]
          ELSE InOrder(Tail(steps), r)

\* the field holds what the steps reach from v; where a step failed it holds
\* the value reached before that step or v itself, nothing a later step made
HoldsRunOf(el, steps, v) ==
  /\ output.t = "object"
  /\ el.name \in DOMAIN output.o
  /\ LET run == InOrder(steps, v)
     IN IF run.failed
        THEN output.o[el.name] \in {run.value, input.o[el.name]}
        ELSE output.o[el.name] = run.value

(***************************************************************************)
(* C25: the steps of a field of one type run in a fixed order, the type    *)
(* coercer first, then one rule function per registered rule key in the    *)
(* order of the keys of the schema, each on the value of the step before;  *)
(* after the first step that fails no later step is run.                   *)
(***************************************************************************)
C25_ChainOrderAndShortCircuit ==
  Returned =>
    \A i \in Fields :
      LET el == elements[i] IN
        ( /\ IsRuleField(el)
          /\ elementToSchema(el).type.t = "string"
          /\ elementToSchema(el).type # Str("array")
          /\ Own(el.name)
          /\ ~isEmpty(input.o[el.name]) )
        => HoldsRunOf(el, StepsInOrder(el), input.o[el.name])

\* an integer field with a rejecting rule under name and a replacing rule
\* under required: "5" is coerced, the first rule fails, the second is not run
C25_Witness ==
  /\ Returned
  /\ DOMAIN RULES = {"name", "required"}
  /\ RULES["name"] = "reject"
  /\ RULES["required"] = "replace"
  /\ elements = <<Element("a", TRUE, ScalarShape("integer", Undefined))>>
  /\ Own("a")
  /\ input.o["a"] = Str("5")
  /\ output = Obj([a |-> Num(5, 0)], NoProps)

\* with typeOf under name and a rejecting rule under required: "5" is
\* coerced to 5, typeOf is given the number, the rejection leaves "number"
C25_WitnessAllSteps ==
  /\ Returned
  /\ DOMAIN RULES = {"name", "required"}
  /\ RULES["name"] = "typeOf"
  /\ RULES["required"] = "reject"
  /\ elements = <<Element("a", TRUE, ScalarShape("integer", Undefined))>>
  /\ Own("a")
  /\ input.o["a"] = Str("5")
  /\ output = Obj([a |-> Str("number")], NoProps)

\* a coercer of the field's type list succeeds on v
SomeTypeAccepts(el, v) ==
  \E j \in 1..Len(elementToSchema(el).type.a) :
    LET t == elementToSchema(el).type.a[j].s
    IN t \in DOMAIN TYPES /\ Coerce(t, v) # Thrown

(***************************************************************************)
(* C27: a field with a type list and registered rule keys holds the value  *)
(* of the first type that accepts its input with every rule applied to it  *)
(* in turn; no rule is skipped because a coercer succeeded, and where no   *)
(* coercer accepts the input no rule is run on the input in its place.     *)
(***************************************************************************)
C27_RulesInUnion ==
  Returned =>
    \A i \in Fields :
      LET el == elements[i] IN
        ( /\ IsRuleField(el)
          /\ IsArray(elementToSchema(el).type)
          /\ Len(RulesOf(el)) > 0
          /\ Own(el.name)
          /\ ~isEmpty(input.o[el.name]) )
        => IF SomeTypeAccepts(el, input.o[el.name])
           THEN HoldsRunOf(el, RuleStepsInOrder(el),
                           FirstSuccess(elementToSchema(el).type.a,
                                        input.o[el.name]))
           ELSE KeepsValue(el)

\* caller c has left the function with a result
Done(c) == calls[c].pc = "done"

(***************************************************************************)
(* C23: when several callers are inside one compiled function and their    *)
(* steps interleave in any order, each is returned what the function       *)
(* returns for its own input when called alone.                            *)
(***************************************************************************)
C23_ConcurrentReuse ==
  \A c \in DOMAIN calls :
    Done(c) => calls[c].out = recordFn(sanitizations, calls[c].input, RULES, TYPES)

\* caller 2 entered while caller 1 was inside, with another input, and each
\* left with the record of its own input
C23_Witness ==
  /\ Done(1) /\ Done(2)
  /\ calls[2].among = {1}
  /\ Len(elements) = 2
  /\ calls[1].input = Obj([a |-> Str("5")], NoProps)
  /\ calls[2].input = Obj([a |-> Str("abc"), x |-> Str("0")], NoProps)
  /\ calls[1].out = Obj([a |-> Num(5, 0), x |-> Str("abc")], NoProps)
  /\ calls[2].out = Obj([a |-> Str("abc"), x |-> Str("0")], NoProps)

(***************************************************************************)
(* C30: the registries of a second instance stay as the module creates     *)
(* them whatever is registered on the first, and a function compiled by    *)
(* the second instance returns what it returns with no registration made.  *)
(***************************************************************************)
C30_InstanceIsolation ==
  /\ other.kind = "instance"
       => other.TYPES = BuiltinTypes /\ other.RULES = BuiltinRules
  /\ (Returned /\ other.kind = "instance")
       => output = recordFn(sanitize(elements, BuiltinRules, BuiltinTypes),
                            input, BuiltinRules, BuiltinTypes)

\* a replacing rule and another integer coercer are registered on the first
\* instance; the second still turns "5" into 5
C30_Witness ==
  /\ Returned
  /\ other.kind = "instance"
  /\ "required" \in DOMAIN RULES
  /\ TYPES["integer"] = "typeOf"
  /\ elements = <<Element("a", TRUE, ScalarShape("integer", Undefined))>>
  /\ Own("a")
  /\ input.o["a"] = Str("5")
  /\ output = Obj([a |-> Num(5, 0)], NoProps)

=============================================================================
